---- MODULE Spec2Model ----
(***************************************************************************)
(* Model of backend/main.py: the YouTube Q&A backend.                      *)
(*                                                                         *)
(* The server is one asyncio event loop.  Both endpoint handlers are       *)
(* `async def` functions whose bodies contain no `await`: once the loop    *)
(* starts a handler it runs to its return or raise before any other        *)
(* handler runs.  Requests are concurrent in that several of them can be   *)
(* in flight (received, handler not yet run) at the same time, and the     *)
(* loop runs their handlers in any order.                                  *)
(*                                                                         *)
(* Strings that the code inspects (URLs, video ids, transcript segments)   *)
(* are sequences of one-character strings.  Questions and answers are      *)
(* opaque to the code and are plain strings.                               *)
(***************************************************************************)
EXTENDS Integers, Sequences, FiniteSets, Bags, TLC

VARIABLES session_cache, pending, log, chains_built, parser_url, parsed

server_vars == <<session_cache, pending, log, chains_built>>

\* the input and the result of one call of the URL parser on its own
parser_vars == <<parser_url, parsed>>

vars == <<session_cache, pending, log, chains_built, parser_url, parsed>>

-----------------------------------------------------------------------------
(* Bounds *)

MaxRequests == 3

\* a URL given to the parser on its own is made of at most so many pieces
MaxPieces == 4

-----------------------------------------------------------------------------
(* Characters and strings *)

Lower == {"a","b","c","d","e","f","g","h","i","j","k","l","m",
          "n","o","p","q","r","s","t","u","v","w","x","y","z"}
Upper == {"A","B","C","D","E","F","G","H","I","J","K","L","M",
          "N","O","P","Q","R","S","T","U","V","W","X","Y","Z"}
Digit == {"0","1","2","3","4","5","6","7","8","9"}

\* the character class [a-zA-Z0-9_-]
IdChars == Lower \cup Upper \cup Digit \cup {"_", "-"}

IdChar(c) == c \in IdChars

\* the literal prefixes of the three patterns (the escapes \? and \. are the
\* literal characters ? and .)
WatchLit == <<"w","a","t","c","h","?","v","=">>
YoutuLit == <<"y","o","u","t","u",".","b","e","/">>
EmbedLit == <<"e","m","b","e","d","/">>

patterns == <<WatchLit, YoutuLit, EmbedLit>>

\* re.search(lit + "([a-zA-Z0-9_-]+)", url) matches at position i
MatchAt(lit, url, i) ==
    /\ i + Len(lit) <= Len(url)
    /\ \A k \in 1..Len(lit) : url[i + k - 1] = lit[k]
    /\ IdChar(url[i + Len(lit)])

HasMatch(lit, url) == \E i \in 1..Len(url) : MatchAt(lit, url, i)

\* mutation: the group captures one character (a lazy or missing +)
Group1_OneChar(lit, url) ==
    LET i == CHOOSE p \in 1..Len(url) :
                /\ MatchAt(lit, url, p)
                /\ \A q \in 1..(p - 1) : ~MatchAt(lit, url, q)
    IN  SubSeq(url, i + Len(lit), i + Len(lit))

\* group(1) of the leftmost match: the longest run of identifier characters
Group1(lit, url) ==
    LET i     == CHOOSE p \in 1..Len(url) :
                    /\ MatchAt(lit, url, p)
                    /\ \A q \in 1..(p - 1) : ~MatchAt(lit, url, q)
        start == i + Len(lit)
        stop  == CHOOSE e \in start..Len(url) :
                    /\ \A k \in start..e : IdChar(url[k])
                    /\ (e = Len(url) \/ ~IdChar(url[e + 1]))
    IN  SubSeq(url, start, stop)

\* None is the empty sequence here: a captured group is never empty, and the
\* handler only tests `not video_id`, which None and "" both satisfy.
NoId == <<>>

\* mutation: the patterns are tried in the opposite order
get_video_id_from_url_Reversed(url) ==
    IF HasMatch(patterns[3], url) THEN Group1(patterns[3], url)
    ELSE IF HasMatch(patterns[2], url) THEN Group1(patterns[2], url)
    ELSE IF HasMatch(patterns[1], url) THEN Group1(patterns[1], url)
    ELSE NoId

get_video_id_from_url(url) ==
    IF HasMatch(patterns[1], url) THEN Group1(patterns[1], url)
    ELSE IF HasMatch(patterns[2], url) THEN Group1(patterns[2], url)
    ELSE IF HasMatch(patterns[3], url) THEN Group1(patterns[3], url)
    ELSE NoId

-----------------------------------------------------------------------------
(* Inputs of the requests *)

NotAUrl == <<"n","o","t"," ","a"," ","u","r","l">>

Urls == { WatchLit \o <<"a">>,
          YoutuLit \o <<"b">>,
          NotAUrl,
          <<>> }

\* video_id of an ask-question request is any string the client sends
AskIds == { <<"a">>, <<"b">> }

Questions == {"q1", "q2"}
Answers   == {"a1", "a2"}

-----------------------------------------------------------------------------
(* External collaborators: what a call can do *)

\* YouTubeTranscriptApi().fetch raises, or returns a list of segments
FetchOutcomes ==
    { [ok |-> FALSE, segs |-> <<>>],
      [ok |-> TRUE,  segs |-> <<>>],
      [ok |-> TRUE,  segs |-> << <<>> >>],
      [ok |-> TRUE,  segs |-> << <<>>, <<>> >>],
      [ok |-> TRUE,  segs |-> << <<"h","i">> >>] }

\* the chain call raises, returns a result without 'answer', or answers
InvokeOutcomes ==
    { [raised |-> TRUE,  has_answer |-> FALSE, answer |-> ""],
      [raised |-> FALSE, has_answer |-> FALSE, answer |-> ""] }
    \cup { [raised |-> FALSE, has_answer |-> TRUE, answer |-> a] : a \in Answers }

ExtOutcomes ==
    [fetch : FetchOutcomes, index_ok : BOOLEAN, chain_ok : BOOLEAN]

-----------------------------------------------------------------------------
(* Helper functions *)

RECURSIVE Join(_)
\* " ".join(texts)
Join(texts) ==
    IF Len(texts) = 0 THEN <<>>
    ELSE IF Len(texts) = 1 THEN texts[1]
    ELSE texts[1] \o <<" ">> \o Join(Tail(texts))

\* result: [some |-> FALSE] is None, else the transcript text
get_transcript_from_youtube(fetch) ==
    IF fetch.ok THEN [some |-> TRUE, text |-> Join(fetch.segs)]
    ELSE [some |-> FALSE, text |-> <<>>]

\* `not transcript`
NotTranscript(t) == ~t.some \/ Len(t.text) = 0

\* "None" or the vector store
create_vector_store(index_ok) == IF index_ok THEN "vector_store" ELSE "None"

\* 0 is None, else the handle of the chain object just built
create_qa_chain(chain_ok, handle) == IF chain_ok THEN handle ELSE 0

-----------------------------------------------------------------------------
(* The session cache: a dict, here a function whose DOMAIN is its key set *)

EmptyCache == [k \in {} |-> 0]

NewSession(qa_chain) == [qa_chain |-> qa_chain, chat_history |-> <<>>]

\* mutation: storing a session drops the sessions of the other ids
CachePut_Only(cache, video_id, session) ==
    [k \in {video_id} |-> session]

CachePut(cache, video_id, session) ==
    [k \in (DOMAIN cache) \cup {video_id} |->
        IF k = video_id THEN session ELSE cache[k]]

-----------------------------------------------------------------------------
(* Responses.  A result is the response of a handler together with the     *)
(* external calls it made, in order, and the cache it leaves.  chain is    *)
(* the chain handle the handler built (process_video) or invoked           *)
(* (ask_question), 0 when none; passed is the chat_history the chain was   *)
(* invoked with.                                                           *)

AlreadyMsg   == "Video already processed"
ProcessedMsg == "Video processed successfully"

\* one external call: for fetch, index and chain, ok says that the call
\* returned instead of raising; for invoke, that it returned a result that
\* carries an answer
Call(step, ok) == [step |-> step, ok |-> ok]

Result(status, message, answer, calls, chain, passed, cache, wrote) ==
    [status |-> status, message |-> message, answer |-> answer,
     calls |-> calls, chain |-> chain, passed |-> passed,
     cache |-> cache, wrote |-> wrote]

\* mutation: the URL check never rejects
InvalidUrl_Never(video_id) == FALSE

\* `if not video_id`
InvalidUrl(video_id) == video_id = NoId

InvalidUrlResult(cache, video_id) ==
    Result(400, "Invalid YouTube URL", "", <<>>, 0, <<>>, cache, FALSE)

\* mutation: the handler never takes the short-circuit
AlreadyProcessed_Never(cache, video_id) == FALSE

\* `if video_id in session_cache`
AlreadyProcessed(cache, video_id) == video_id \in DOMAIN cache

\* mutation: the short-circuit stores a fresh session for the id
AlreadyResult_Reset(cache, video_id) ==
    Result(200, AlreadyMsg, "", <<>>, 0, <<>>,
           CachePut(cache, video_id, NewSession(cache[video_id].qa_chain)), FALSE)

AlreadyResult(cache, video_id) ==
    Result(200, AlreadyMsg, "", <<>>, 0, <<>>, cache, FALSE)

\* mutation: a failed fetch is remembered in the cache
NoTranscriptResult_Remembers(cache, video_id, calls) ==
    Result(404, "Could not fetch transcript", "", calls, 0, <<>>,
           CachePut(cache, video_id, NewSession(0)), FALSE)

NoTranscriptResult(cache, video_id, calls) ==
    Result(404, "Could not fetch transcript", "", calls, 0, <<>>, cache, FALSE)

\* mutation: a failed index build leaves a partial session
NoStoreResult_Partial(cache, video_id, calls) ==
    Result(500, "Could not create vector store", "", calls, 0, <<>>,
           CachePut(cache, video_id, NewSession(0)), FALSE)

NoStoreResult(cache, video_id, calls) ==
    Result(500, "Could not create vector store", "", calls, 0, <<>>, cache, FALSE)

\* mutation: the session is stored before the chain is checked
NoChainResult_Caches(cache, video_id, calls) ==
    Result(500, "Could not create Q&A chain", "", calls, 0, <<>>,
           CachePut(cache, video_id, NewSession(0)), FALSE)

NoChainResult(cache, video_id, calls) ==
    Result(500, "Could not create Q&A chain", "", calls, 0, <<>>, cache, FALSE)

\* mutation: success is reported but the session is not stored
ProcessedResult_NoWrite(cache, video_id, calls, qa_chain) ==
    Result(200, ProcessedMsg, "", calls, qa_chain, <<>>, cache, FALSE)

ProcessedResult(cache, video_id, calls, qa_chain) ==
    Result(200, ProcessedMsg, "", calls, qa_chain, <<>>,
           CachePut(cache, video_id, NewSession(qa_chain)), TRUE)

\* the body of process_video
ProcessVideo(cache, url, ext, handle) ==
    LET video_id     == get_video_id_from_url(url)
        transcript   == get_transcript_from_youtube(ext.fetch)
        vector_store == create_vector_store(ext.index_ok)
        qa_chain     == create_qa_chain(ext.chain_ok, handle)
        c1           == << Call("fetch", ext.fetch.ok) >>
        c2           == Append(c1, Call("index", ext.index_ok))
        c3           == Append(c2, Call("chain", ext.chain_ok))
    IN  IF InvalidUrl(video_id) THEN InvalidUrlResult(cache, video_id)
        ELSE IF AlreadyProcessed(cache, video_id) THEN AlreadyResult(cache, video_id)
        ELSE IF NotTranscript(transcript) THEN NoTranscriptResult(cache, video_id, c1)
        ELSE IF vector_store = "None" THEN NoStoreResult(cache, video_id, c2)
        ELSE IF qa_chain = 0 THEN NoChainResult(cache, video_id, c3)
        ELSE ProcessedResult(cache, video_id, c3, qa_chain)

\* mutation: a lookup of a missing id creates its entry
NotProcessedResult_Creates(cache, video_id) ==
    Result(404, "", "", <<>>, 0, <<>>,
           CachePut(cache, video_id, NewSession(0)), FALSE)

NotProcessedResult(cache, video_id) ==
    Result(404, "", "", <<>>, 0, <<>>, cache, FALSE)

\* mutation: the chain is invoked with a fresh empty history
PassedHistory_Fresh(session) == <<>>

\* the chat_history handed to the chain: the session's list itself
PassedHistory(session) == session.chat_history

\* mutation: the history is assigned the new pair instead of extended by it
AppendHistory_Replace(chat_history, question, answer) ==
    << <<question, answer>> >>

\* mutation: the new pair is put in front
AppendHistory_Prepend(chat_history, question, answer) ==
    << <<question, answer>> >> \o chat_history

\* chat_history.append((question, answer))
AppendHistory(chat_history, question, answer) ==
    Append(chat_history, <<question, answer>>)

\* mutation: the question is recorded although the query failed
QueryFailedResult_Appends(cache, video_id, question, calls, qa_chain, passed) ==
    Result(500, "", "", calls, qa_chain, passed,
           [cache EXCEPT ![video_id].chat_history = Append(@, <<question, "">>)],
           FALSE)

\* mutation: a failed query evicts the session
QueryFailedResult_Evicts(cache, video_id, question, calls, qa_chain, passed) ==
    Result(500, "", "", calls, qa_chain, passed,
           [k \in (DOMAIN cache) \ {video_id} |-> cache[k]], FALSE)

\* mutation: the except branch is missing and the error leaves the handler
\* (status 0: no response of the handler)
QueryFailedResult_Escapes(cache, video_id, question, calls, qa_chain, passed) ==
    Result(0, "", "", calls, qa_chain, passed, cache, FALSE)

\* the except branch: the chain raised, or result['answer'] raised KeyError
QueryFailedResult(cache, video_id, question, calls, qa_chain, passed) ==
    Result(500, "", "", calls, qa_chain, passed, cache, FALSE)

AnsweredResult(cache, video_id, question, answer, calls, qa_chain, passed) ==
    Result(200, "", answer, calls, qa_chain, passed,
           [cache EXCEPT ![video_id].chat_history =
               AppendHistory(cache[video_id].chat_history, question, answer)],
           FALSE)

\* the body of ask_question
AskQuestion(cache, video_id, question, out) ==
    IF video_id \notin DOMAIN cache THEN NotProcessedResult(cache, video_id)
    ELSE
      LET session      == cache[video_id]
          qa_chain     == session.qa_chain
          chat_history == PassedHistory(session)
          answered     == ~out.raised /\ out.has_answer
          calls        == << Call("invoke", answered) >>
      IN  IF answered
            THEN AnsweredResult(cache, video_id, question, out.answer, calls,
                                qa_chain, chat_history)
          ELSE QueryFailedResult(cache, video_id, question, calls, qa_chain,
                                 chat_history)

-----------------------------------------------------------------------------
(* Requests.  pending is the bag of requests in flight: received, handler  *)
(* not yet run.  log records the observation of every handler run: for     *)
(* each video id, the requests about that id with their responses, in the  *)
(* order the loop ran their handlers (requests whose URL has no id are     *)
(* under NoId).  arrived_at is the number of handlers about the same id    *)
(* that had run when the request arrived.                                  *)

\* the video id a request is about
IdOf(req) ==
    IF req.kind = "process" THEN get_video_id_from_url(req.video_url)
    ELSE req.video_id

LogKeys == {get_video_id_from_url(u) : u \in Urls} \cup AskIds

Handled == LET RECURSIVE Sum(_)
               Sum(S) == IF S = {} THEN 0
                         ELSE LET k == CHOOSE x \in S : TRUE
                              IN  Len(log[k]) + Sum(S \ {k})
           IN  Sum(LogKeys)

NewRequest(kind, video_url, video_id, question, arrived_at) ==
    [kind |-> kind, video_url |-> video_url, video_id |-> video_id,
     question |-> question, arrived_at |-> arrived_at]

Done(req, r, cached_before) ==
    [kind |-> req.kind, video_url |-> req.video_url, video_id |-> IdOf(req),
     question |-> req.question, arrived_at |-> req.arrived_at,
     status |-> r.status, message |-> r.message, answer |-> r.answer,
     calls |-> r.calls, chain |-> r.chain, passed |-> r.passed,
     wrote |-> r.wrote, cached_before |-> cached_before]

InFlight == BagCardinality(pending)

\* the parser has not been called
NotParsed == [done |-> FALSE, video_id |-> NoId]

ServerInit ==
    /\ session_cache = EmptyCache
    /\ pending = EmptyBag
    /\ log = [k \in LogKeys |-> <<>>]
    /\ chains_built = 0

Init ==
    /\ ServerInit
    /\ parser_url = <<>>
    /\ parsed = NotParsed

\* POST /process-video arrives
ReceiveProcess ==
    /\ InFlight + Handled < MaxRequests
    /\ \E url \in Urls :
          pending' = pending (+) SetToBag({NewRequest("process", url, <<>>, "",
                                    Len(log[get_video_id_from_url(url)]))})
    /\ UNCHANGED <<session_cache, log, chains_built, parser_url, parsed>>

\* POST /ask-question arrives
ReceiveAsk ==
    /\ InFlight + Handled < MaxRequests
    /\ \E id \in AskIds, q \in Questions :
          pending' = pending (+) SetToBag({NewRequest("ask", <<>>, id, q, Len(log[id]))})
    /\ UNCHANGED <<session_cache, log, chains_built, parser_url, parsed>>

\* the results process_video can produce for a request, over all outcomes
\* of the external calls
ProcessResults(cache, url, handle) ==
    { ProcessVideo(cache, url, ext, handle) : ext \in ExtOutcomes }

AskResults(cache, video_id, question) ==
    { AskQuestion(cache, video_id, question, out) : out \in InvokeOutcomes }

ChainBuilt(calls) ==
    \E k \in 1..Len(calls) : calls[k].step = "chain" /\ calls[k].ok

\* the loop runs the handler of a process-video request
process_video(req) ==
    /\ BagIn(req, pending)
    /\ req.kind = "process"
    /\ \E r \in ProcessResults(session_cache, req.video_url, chains_built + 1) :
         /\ session_cache' = r.cache
         /\ chains_built' = IF ChainBuilt(r.calls) THEN chains_built + 1
                            ELSE chains_built
         /\ log' = [log EXCEPT ![IdOf(req)] =
                       Append(@, Done(req, r, IdOf(req) \in DOMAIN session_cache))]
    /\ pending' = pending (-) SetToBag({req})
    /\ UNCHANGED parser_vars

\* the loop runs the handler of an ask-question request
ask_question(req) ==
    /\ BagIn(req, pending)
    /\ req.kind = "ask"
    /\ \E r \in AskResults(session_cache, req.video_id, req.question) :
         /\ session_cache' = r.cache
         /\ log' = [log EXCEPT ![IdOf(req)] =
                       Append(@, Done(req, r, IdOf(req) \in DOMAIN session_cache))]
    /\ pending' = pending (-) SetToBag({req})
    /\ UNCHANGED <<chains_built, parser_url, parsed>>

Next ==
    \/ ReceiveProcess
    \/ ReceiveAsk
    \/ \E req \in BagToSet(pending) : process_video(req)
    \/ \E req \in BagToSet(pending) : ask_question(req)

Spec == Init /\ [][Next]_vars

-----------------------------------------------------------------------------
(* The URL parser on its own: get_video_id_from_url applied to one URL      *)
(* made of pieces: the three markers, identifier characters of each kind   *)
(* and characters outside the identifier alphabet.                         *)

Pieces == { WatchLit, YoutuLit, EmbedLit,
            <<"a">>, <<"Z">>, <<"7">>, <<"_">>, <<"-">>,
            <<"/">> }

RECURSIVE Flatten(_)
Flatten(ps) == IF Len(ps) = 0 THEN <<>> ELSE ps[1] \o Flatten(Tail(ps))

\* the strings made of at most n pieces
ParserUrls(n) ==
    UNION { { Flatten(ps) : ps \in [1..k -> Pieces] } : k \in 0..n }

ParserInit ==
    /\ ServerInit
    /\ parser_url \in ParserUrls(MaxPieces)
    /\ parsed = NotParsed

\* the call get_video_id_from_url(parser_url)
Parse ==
    /\ ~parsed.done
    /\ parsed' = [done |-> TRUE, video_id |-> get_video_id_from_url(parser_url)]
    /\ UNCHANGED <<session_cache, pending, log, chains_built, parser_url>>

ParserNext == Parse

ParserSpec == ParserInit /\ [][ParserNext]_vars

TypeOK ==
    /\ chains_built \in 0..MaxRequests
    /\ InFlight + Handled <= MaxRequests
    /\ DOMAIN session_cache \subseteq LogKeys

-----------------------------------------------------------------------------
(* Reading the log *)

\* the step runs a handler about id
Ran(id) == log'[id] # log[id]

\* the latest handler run about id
Last(id) == log[id][Len(log[id])]

IsProcess(d) == d.kind = "process"
IsAsk(d)     == d.kind = "ask"
IsAnswered(d) == d.kind = "ask" /\ d.status = 200

\* the (question, answer) pairs of the answered questions among entries, in
\* the order of the calls, as returned to the callers
TurnsOf(entries) ==
    LET s == SelectSeq(entries, IsAnswered)
    IN  [j \in 1..Len(s) |-> <<s[j].question, s[j].answer>>]

Turns(id) == TurnsOf(log[id])

FailedStep(calls, step) ==
    \E k \in 1..Len(calls) : calls[k].step = step /\ ~calls[k].ok

HasStep(calls, step) == \E k \in 1..Len(calls) : calls[k].step = step

FullPipeline == << Call("fetch", TRUE), Call("index", TRUE), Call("chain", TRUE) >>

\* a process-video request for id that arrived before the k-th handler about
\* id ran and whose own handler had not run by then
ProcessInFlightAt(id, k) ==
    \/ \E j \in (k + 1)..Len(log[id]) :
          IsProcess(log[id][j]) /\ log[id][j].arrived_at < k
    \/ \E req \in BagToSet(pending) :
          IsProcess(req) /\ IdOf(req) = id /\ req.arrived_at < k

\* entries k1 < k2 of log[id] are process-video requests that were in flight
\* together while id was not in the cache
Raced(id, k1, k2) ==
    /\ k1 < k2
    /\ IsProcess(log[id][k1]) /\ IsProcess(log[id][k2])
    /\ id # NoId
    /\ ~log[id][k1].cached_before
    /\ log[id][k2].arrived_at < k1

-----------------------------------------------------------------------------
(* Claims *)

\* C1: a process-video request for an id already in the cache answers 200
\* "Video already processed", makes no fetch, index or chain call, and leaves
\* the cache as it was: same chain handle, same chat history.
C1_Step(id) ==
    (Ran(id) /\ IsProcess(Last(id)') /\ id \in DOMAIN session_cache) =>
        /\ Last(id)'.status = 200
        /\ Last(id)'.message = AlreadyMsg
        /\ Last(id)'.calls = <<>>
        /\ session_cache' = session_cache
        /\ chains_built' = chains_built

C1_ShortCircuit == [][\A id \in LogKeys : C1_Step(id)]_vars

C1_Witness ==
    \E id \in DOMAIN session_cache :
        /\ Len(session_cache[id].chat_history) > 0
        /\ \E k \in 1..Len(log[id]) :
              /\ IsProcess(log[id][k]) /\ log[id][k].cached_before
              /\ \E j \in 1..(k - 1) : IsAnswered(log[id][j])

\* C2: an ask-question request for an id that is not in the cache answers
\* 404, invokes no chain and leaves the cache as it was (no entry created).
C2_Step(id) ==
    (Ran(id) /\ IsAsk(Last(id)') /\ id \notin DOMAIN session_cache) =>
        /\ Last(id)'.status = 404
        /\ Last(id)'.calls = <<>>
        /\ Last(id)'.chain = 0
        /\ session_cache' = session_cache
        /\ id \notin DOMAIN session_cache'

C2_AskUnprocessed == [][\A id \in LogKeys : C2_Step(id)]_vars

C2_Witness ==
    \E id \in LogKeys : \E k \in 1..Len(log[id]) :
        /\ IsAsk(log[id][k]) /\ log[id][k].status = 404
        /\ \E j \in 1..(k - 1) : IsProcess(log[id][j]) /\ log[id][j].status # 200
        /\ id \notin DOMAIN session_cache

\* C3: the chat history of a cached id is exactly the sequence of (question,
\* answer returned) pairs of the answered ask-question calls for that id, in
\* call order; an id that is not cached has no answered call.
C3_HistoryIsTurns ==
    \A id \in LogKeys :
        IF id \in DOMAIN session_cache
          THEN session_cache[id].chat_history = Turns(id)
          ELSE Turns(id) = <<>>

C3_Witness ==
    \E id \in DOMAIN session_cache :
        /\ Len(session_cache[id].chat_history) = 2
        /\ session_cache[id].chat_history[1] # session_cache[id].chat_history[2]

\* C4 as stated: the second answered question's invocation of the chain is
\* passed both pairs, the history of length 2.
C4_Original ==
    \A id \in LogKeys :
        LET s == SelectSeq(log[id], IsAnswered)
        IN  Len(s) >= 2 => s[2].passed = SubSeq(Turns(id), 1, 2)

\* C4 amended: every invocation of the chain is passed the pairs of the
\* questions answered before it and no other: the second answered question's
\* invocation is passed the first pair alone.
C4_PassedIsEarlierTurns ==
    \A id \in LogKeys : \A k \in 1..Len(log[id]) :
        (IsAsk(log[id][k]) /\ log[id][k].calls # <<>>) =>
            log[id][k].passed = TurnsOf(SubSeq(log[id], 1, k - 1))

C4_Witness ==
    \E id \in LogKeys :
        LET s == SelectSeq(log[id], IsAnswered)
        IN  /\ Len(s) >= 2
            /\ Len(s[2].passed) = 1
            /\ Len(session_cache[id].chat_history) = 2

\* C5: a process-video request whose URL yields no video id answers 400,
\* makes no fetch, index or chain call and leaves the cache as it was.
C5_Step(id) ==
    (Ran(id) /\ IsProcess(Last(id)')
        /\ get_video_id_from_url(Last(id)'.video_url) = NoId) =>
        /\ Last(id)'.status = 400
        /\ Last(id)'.calls = <<>>
        /\ session_cache' = session_cache
        /\ chains_built' = chains_built

C5_InvalidUrl == [][\A id \in LogKeys : C5_Step(id)]_vars

C5_Witness ==
    /\ DOMAIN session_cache # {}
    /\ \E k \in 1..Len(log[NoId]) : log[NoId][k].video_url = <<>>
    /\ \E k \in 1..Len(log[NoId]) : log[NoId][k].video_url = NotAUrl
    /\ \A k \in 1..Len(log[NoId]) : log[NoId][k].status = 400

\* C6: a process-video request for an id that is not in the cache starts with
\* the transcript fetch, whatever happened to earlier requests for the id;
\* when the fetch fails it answers 404, builds neither index nor chain and
\* leaves the id absent from the cache.
C6_Step(id) ==
    (Ran(id) /\ IsProcess(Last(id)') /\ id # NoId
        /\ id \notin DOMAIN session_cache) =>
        /\ Last(id)'.calls # <<>>
        /\ Last(id)'.calls[1].step = "fetch"
        /\ ~Last(id)'.calls[1].ok =>
              /\ Last(id)'.status = 404
              /\ Len(Last(id)'.calls) = 1
              /\ session_cache' = session_cache
              /\ id \notin DOMAIN session_cache'

C6_FetchFailure == [][\A id \in LogKeys : C6_Step(id)]_vars

\* a failed fetch, then a retry for the same id that succeeds
C6_Witness ==
    \E id \in DOMAIN session_cache : \E k1, k2 \in 1..Len(log[id]) :
        /\ k1 < k2
        /\ IsProcess(log[id][k1]) /\ log[id][k1].status = 404
        /\ log[id][k1].calls = << Call("fetch", FALSE) >>
        /\ IsProcess(log[id][k2]) /\ log[id][k2].status = 200
        /\ log[id][k2].calls = FullPipeline

\* C7: a process-video request in which the index build or the chain build
\* fails (after a successful fetch) answers 500 and writes no cache entry; a
\* failed index build means no chain build is attempted; and the next
\* process-video request for the id starts again from the transcript fetch.
C7_Step(id) ==
    (Ran(id) /\ IsProcess(Last(id)')
        /\ (FailedStep(Last(id)'.calls, "index")
              \/ FailedStep(Last(id)'.calls, "chain"))) =>
        /\ Last(id)'.status = 500
        /\ Last(id)'.calls[1] = Call("fetch", TRUE)
        /\ FailedStep(Last(id)'.calls, "index") => ~HasStep(Last(id)'.calls, "chain")
        /\ session_cache' = session_cache
        /\ id \notin DOMAIN session_cache'
        /\ chains_built' = chains_built

C7_Repeats ==
    \A id \in LogKeys : \A k1, k2 \in 1..Len(log[id]) :
        (/\ k1 < k2
         /\ IsProcess(log[id][k1]) /\ log[id][k1].status = 500
         /\ IsProcess(log[id][k2])
         /\ \A j \in (k1 + 1)..(k2 - 1) : ~IsProcess(log[id][j])) =>
            /\ log[id][k2].calls # <<>>
            /\ log[id][k2].calls[1].step = "fetch"

C7_ConstructionFailure ==
    [][(\A id \in LogKeys : C7_Step(id)) /\ C7_Repeats']_vars

\* a failed index build, a failed chain build, then a retry that succeeds
C7_Witness ==
    \E id \in DOMAIN session_cache : \E k1, k2, k3 \in 1..Len(log[id]) :
        /\ k1 < k3 /\ k2 < k3
        /\ log[id][k1].status = 500 /\ FailedStep(log[id][k1].calls, "index")
        /\ log[id][k2].status = 500 /\ FailedStep(log[id][k2].calls, "chain")
        /\ log[id][k3].status = 200 /\ log[id][k3].calls = FullPipeline

\* C8: an ask-question request for a cached id whose chain invocation fails
\* (raises, or returns a result without an answer) answers 500 and leaves the
\* cache as it was: nothing appended, same chain, id still cached; and every
\* ask-question for a cached id does invoke the id's chain.
C8_Step(id) ==
    (Ran(id) /\ IsAsk(Last(id)') /\ id \in DOMAIN session_cache) =>
        /\ Len(Last(id)'.calls) = 1
        /\ Last(id)'.calls[1].step = "invoke"
        /\ Last(id)'.chain = session_cache[id].qa_chain
        /\ ~Last(id)'.calls[1].ok =>
              /\ Last(id)'.status = 500
              /\ session_cache' = session_cache

C8_QueryFailure == [][\A id \in LogKeys : C8_Step(id)]_vars

\* a failed question, then a question about the same id that is answered
C8_Witness ==
    \E id \in DOMAIN session_cache : \E k1, k2 \in 1..Len(log[id]) :
        /\ k1 < k2
        /\ IsAsk(log[id][k1]) /\ log[id][k1].status = 500
        /\ IsAnswered(log[id][k2])
        /\ Len(session_cache[id].chat_history) = 1

\* C9 as stated: of two process-video requests in flight together for an id
\* not in the cache, the one that runs second performs the pipeline too (it
\* does not take the short-circuit), and when both succeed both write the
\* cache entry.
C9_Original ==
    \A id \in LogKeys : \A k1, k2 \in 1..Len(log[id]) :
        Raced(id, k1, k2) =>
            /\ log[id][k2].message # AlreadyMsg
            /\ log[id][k2].calls # <<>>
            /\ (log[id][k1].status = 200 /\ log[id][k2].status = 200)
                  => (log[id][k1].wrote /\ log[id][k2].wrote)

\* C9 amended: the handlers of two process-video requests in flight together
\* for an id not in the cache run one after the other.  When the first
\* succeeds, the id is cached by the time the second runs, and a second that
\* finds the id cached takes the short-circuit: it makes no fetch, index or
\* chain call and writes nothing.  Only a second that still finds the id
\* absent performs the pipeline, from the fetch.  The entry of an id is
\* written at most once and holds the chain its writer built.
C9_SecondShortCircuits ==
    \A id \in LogKeys :
        /\ \A k1, k2 \in 1..Len(log[id]) :
              Raced(id, k1, k2) =>
                  /\ log[id][k1].status = 200 =>
                        /\ log[id][k1].wrote
                        /\ log[id][k1].calls = FullPipeline
                        /\ log[id][k2].cached_before
                  /\ IF log[id][k2].cached_before
                       THEN /\ log[id][k2].status = 200
                            /\ log[id][k2].message = AlreadyMsg
                            /\ log[id][k2].calls = <<>>
                            /\ ~log[id][k2].wrote
                       ELSE /\ log[id][k2].calls # <<>>
                            /\ log[id][k2].calls[1].step = "fetch"
        /\ Cardinality({k \in 1..Len(log[id]) : log[id][k].wrote}) <= 1
        /\ \A k \in 1..Len(log[id]) :
              log[id][k].wrote => session_cache[id].qa_chain = log[id][k].chain

C9_Witness ==
    \E id \in LogKeys : \E k1, k2 \in 1..Len(log[id]) :
        /\ Raced(id, k1, k2)
        /\ log[id][k1].arrived_at = 0 /\ log[id][k2].arrived_at = 0
        /\ log[id][k1].status = 200
        /\ log[id][k2].message = AlreadyMsg

\* C10 as stated, for the readers it is about: an ask-question that runs
\* while a process-video request for its id is in flight and finds an entry
\* for the id is offered an incomplete session, an entry without a
\* successfully built chain.
C10_Original ==
    \A id \in LogKeys : \A k \in 1..Len(log[id]) :
        (/\ IsAsk(log[id][k])
         /\ ProcessInFlightAt(id, k)
         /\ log[id][k].cached_before) =>
            log[id][k].chain = 0

\* a session that holds a successfully built chain and its chat history
Complete(session) ==
    /\ session.qa_chain \in 1..chains_built
    /\ session.chat_history \in Seq(Questions \X Answers)

\* C10 amended: no reader is ever offered an incomplete session.  Every cache
\* entry holds a chain that a process-video request built after a full
\* successful pipeline, together with its chat history; an ask-question finds
\* either such an entry or none (404), also while process-video requests for
\* the id are in flight.
C10_NeverIncomplete ==
    \A id \in LogKeys :
        /\ id \in DOMAIN session_cache =>
              /\ Complete(session_cache[id])
              /\ \E k \in 1..Len(log[id]) :
                    /\ IsProcess(log[id][k]) /\ log[id][k].wrote
                    /\ log[id][k].calls = FullPipeline
                    /\ log[id][k].chain = session_cache[id].qa_chain
        /\ \A k \in 1..Len(log[id]) :
              IsAsk(log[id][k]) =>
                  IF log[id][k].cached_before
                    THEN log[id][k].chain \in 1..chains_built
                    ELSE log[id][k].status = 404 /\ log[id][k].chain = 0

\* a reader answered while a process-video request for its id is in flight
C10_Witness ==
    \E id \in LogKeys : \E k \in 1..Len(log[id]) :
        /\ IsAsk(log[id][k])
        /\ ProcessInFlightAt(id, k)
        /\ log[id][k].cached_before
        /\ log[id][k].status = 200

-----------------------------------------------------------------------------
(* Reading a URL *)

IsId(s) == Len(s) > 0 /\ \A k \in 1..Len(s) : IdChar(s[k])

\* u holds, from position i on, the marker lit, then id, then the end of the
\* string or a character outside the identifier alphabet
HoldsAt(lit, u, i, id) ==
    /\ IsId(id)
    /\ i + Len(lit) + Len(id) - 1 <= Len(u)
    /\ SubSeq(u, i, i + Len(lit) + Len(id) - 1) = lit \o id
    /\ (i + Len(lit) + Len(id) - 1 = Len(u)
          \/ ~IdChar(u[i + Len(lit) + Len(id)]))

\* the marker lit, followed by at least one identifier character, occurs in u
\* from position i on
OccursAt(lit, u, i) ==
    /\ i + Len(lit) <= Len(u)
    /\ SubSeq(u, i, i + Len(lit) - 1) = lit
    /\ IdChar(u[i + Len(lit)])

Occurs(lit, u) == \E i \in 1..Len(u) : OccursAt(lit, u, i)

\* id is what follows the leftmost occurrence of lit in u
LeftmostCapture(lit, u, id) ==
    \E i \in 1..Len(u) :
        /\ HoldsAt(lit, u, i, id)
        /\ \A q \in 1..(i - 1) : ~OccursAt(lit, u, q)

\* C11 as stated: a string that is a marker, then ID, then the end of the
\* string or a character outside the identifier alphabet (and anything after
\* it) parses to ID; a string in which no marker is followed by an identifier
\* character parses to no match.
C11_Original ==
    parsed.done =>
        /\ \A j \in 1..3 : \A n \in 1..(Len(parser_url) - Len(patterns[j])) :
              LET id == SubSeq(parser_url, Len(patterns[j]) + 1,
                                Len(patterns[j]) + n)
              IN  HoldsAt(patterns[j], parser_url, 1, id) => parsed.video_id = id
        /\ (\A j \in 1..3 : ~Occurs(patterns[j], parser_url))
              => parsed.video_id = NoId

\* C11 amended: such a string parses to ID when no pattern earlier in the
\* order watch?v=, youtu.be/, embed/ matches anywhere in it (always so for
\* watch?v=ID, and for every shape when the string ends with ID); a string
\* in which no marker is followed by an identifier character parses to no
\* match.
C11_ShapesParse ==
    parsed.done =>
        /\ \A j \in 1..3 : \A n \in 1..(Len(parser_url) - Len(patterns[j])) :
              LET id == SubSeq(parser_url, Len(patterns[j]) + 1,
                                Len(patterns[j]) + n)
              IN  (/\ HoldsAt(patterns[j], parser_url, 1, id)
                   /\ \A h \in 1..(j - 1) : ~Occurs(patterns[h], parser_url))
                      => parsed.video_id = id
        /\ (\A j \in 1..3 : ~Occurs(patterns[j], parser_url))
              => parsed.video_id = NoId

\* youtu.be/a7/ parses to a7
C11_Witness ==
    /\ parsed.done
    /\ parser_url = YoutuLit \o <<"a", "7", "/">>
    /\ parsed.video_id = <<"a", "7">>

\* C17: the result is the capture of the first pattern, in the order
\* watch?v=, youtu.be/, embed/, that matches anywhere in the string, wherever
\* the other markers occur; within that pattern it is what follows the
\* leftmost occurrence, the longest run of identifier characters; and it is
\* no match when no pattern matches.
C17_Precedence ==
    parsed.done =>
        IF Occurs(WatchLit, parser_url)
          THEN LeftmostCapture(WatchLit, parser_url, parsed.video_id)
        ELSE IF Occurs(YoutuLit, parser_url)
          THEN LeftmostCapture(YoutuLit, parser_url, parsed.video_id)
        ELSE IF Occurs(EmbedLit, parser_url)
          THEN LeftmostCapture(EmbedLit, parser_url, parsed.video_id)
        ELSE parsed.video_id = NoId

\* an occurrence of embed/ or youtu.be/ precedes one of watch?v= and the
\* result is what follows watch?v=, not what follows the earlier marker
C17_Witness ==
    /\ parsed.done
    /\ \E i, j \in 1..Len(parser_url) :
          /\ i < j
          /\ OccursAt(EmbedLit, parser_url, i) \/ OccursAt(YoutuLit, parser_url, i)
          /\ OccursAt(WatchLit, parser_url, j)
          /\ HoldsAt(WatchLit, parser_url, j, parsed.video_id)
          /\ ~HoldsAt(EmbedLit, parser_url, i, parsed.video_id)
          /\ ~HoldsAt(YoutuLit, parser_url, i, parsed.video_id)

ProcessStatuses == {200, 400, 404, 500}
AskStatuses     == {200, 404, 500}

\* every response given has a documented status
DocumentedStatuses ==
    \A id \in LogKeys : \A k \in 1..Len(log[id]) :
        IF IsProcess(log[id][k]) THEN log[id][k].status \in ProcessStatuses
        ELSE IsAsk(log[id][k]) /\ log[id][k].status \in AskStatuses

\* a step that gives a response gives one response to one request in flight
OneResponse ==
    Handled' # Handled => (Handled' = Handled + 1 /\ InFlight' = InFlight - 1)

\* C12: a handler run gives exactly one response to one request in flight,
\* and every response has a documented status: 200, 400, 404 or 500 for
\* process-video and 200, 404 or 500 for ask-question, whatever the external
\* calls did (returned or raised).
C12_Responses == [][OneResponse /\ DocumentedStatuses']_vars

\* every documented status has been given, and nothing is left in flight
C12_Witness ==
    /\ InFlight = 0
    /\ \E k \in 1..Len(log[NoId]) : log[NoId][k].status = 400
    /\ \E id \in LogKeys : \E k1, k2 \in 1..Len(log[id]) :
          /\ IsProcess(log[id][k1]) /\ log[id][k1].status = 200
          /\ IsAsk(log[id][k2]) /\ log[id][k2].status = 500

\* an ask-question for id is not answered 404 once one was answered otherwise
NoLate404 ==
    \A id \in LogKeys : \A k1, k2 \in 1..Len(log[id]) :
        (k1 < k2 /\ IsAsk(log[id][k1]) /\ IsAsk(log[id][k2])
            /\ log[id][k1].status # 404) => log[id][k2].status # 404

\* C13: an id in the cache stays in the cache at every step, whatever request
\* is handled; and an ask-question for an id is never answered 404 after one
\* for that id was answered anything else.
C13_ReadyForever ==
    [][DOMAIN session_cache \subseteq DOMAIN session_cache' /\ NoLate404']_vars

\* a question about a cached id is answered, a later one fails, and the id
\* is still cached
C13_Witness ==
    \E id \in DOMAIN session_cache : \E k1, k2 \in 1..Len(log[id]) :
        /\ k1 < k2
        /\ IsAnswered(log[id][k1])
        /\ IsAsk(log[id][k2]) /\ log[id][k2].status = 500

\* C14: a process-video run for an absent id in which fetch, index build and
\* chain build are each called once, in that order, and succeed, stores for
\* the id a session holding the chain just built and an empty chat history,
\* and answers success; the cache is written by such a run only; and an
\* ask-question for the id handled afterwards is not answered 404.
C14_Step(id) ==
    (Ran(id) /\ IsProcess(Last(id)')) =>
        /\ Last(id)'.calls = FullPipeline =>
              /\ id \notin DOMAIN session_cache
              /\ Last(id)'.status = 200
              /\ Last(id)'.message = ProcessedMsg
              /\ Last(id)'.chain = chains_built + 1
              /\ chains_built' = chains_built + 1
              /\ DOMAIN session_cache' = DOMAIN session_cache \cup {id}
              /\ session_cache'[id] =
                    [qa_chain |-> chains_built + 1, chat_history |-> <<>>]
        /\ Last(id)'.calls # FullPipeline => session_cache' = session_cache
        /\ (id \notin DOMAIN session_cache /\ Last(id)'.status = 200)
              => Last(id)'.calls = FullPipeline

C14_AskAfter ==
    \A id \in LogKeys : \A k1, k2 \in 1..Len(log[id]) :
        (k1 < k2 /\ IsProcess(log[id][k1]) /\ log[id][k1].calls = FullPipeline
            /\ IsAsk(log[id][k2])) => log[id][k2].status # 404

C14_SuccessPath ==
    [][(\A id \in LogKeys : C14_Step(id)) /\ C14_AskAfter']_vars

\* two ids processed successfully, each with its own chain, and a question
\* about the first answered afterwards
C14_Witness ==
    \E id1, id2 \in DOMAIN session_cache :
        /\ id1 # id2
        /\ session_cache[id1].qa_chain = 1 /\ session_cache[id2].qa_chain = 2
        /\ log[id1][1].calls = FullPipeline
        /\ log[id2][1].calls = FullPipeline
        /\ Len(log[id1]) = 2 /\ IsAnswered(log[id1][2])

\* C15: at every step, every cached id keeps its chain handle, and its chat
\* history either stays as it is or gains one pair at its end.
C15_Step(id) ==
    id \in DOMAIN session_cache =>
        /\ id \in DOMAIN session_cache'
        /\ session_cache'[id].qa_chain = session_cache[id].qa_chain
        /\ LET h  == session_cache[id].chat_history
               h2 == session_cache'[id].chat_history
           IN  /\ Len(h2) \in {Len(h), Len(h) + 1}
               /\ SubSeq(h2, 1, Len(h)) = h

C15_NeverReset == [][\A id \in LogKeys : C15_Step(id)]_vars

\* a process-video request in flight since before the id was cached is
\* handled after a question about the id was answered, and the history is
\* still there
C15_Witness ==
    \E id \in DOMAIN session_cache : \E k1, k2, k3 \in 1..Len(log[id]) :
        /\ k1 < k2 /\ k2 < k3
        /\ Raced(id, k1, k3) /\ log[id][k1].wrote
        /\ IsAnswered(log[id][k2])
        /\ Len(session_cache[id].chat_history) = 1

\* C16: a step that handles a request about id leaves the entry of every
\* other id as it was (absent, or present with the same chain and history);
\* and the chain invoked for a question about id is id's chain, called with
\* id's chat history.
C16_Step(id) ==
    Ran(id) =>
        /\ \A other \in LogKeys \ {id} :
              /\ other \in DOMAIN session_cache <=> other \in DOMAIN session_cache'
              /\ other \in DOMAIN session_cache
                    => session_cache'[other] = session_cache[other]
        /\ (IsAsk(Last(id)') /\ Last(id)'.calls # <<>>) =>
              /\ Last(id)'.chain = session_cache[id].qa_chain
              /\ Last(id)'.passed = session_cache[id].chat_history

C16_Isolation == [][\A id \in LogKeys : C16_Step(id)]_vars

\* two cached ids with different chains; a question about one was answered
\* after the other was cached, and the other's history is empty
C16_Witness ==
    \E id1, id2 \in DOMAIN session_cache :
        /\ id1 # id2
        /\ session_cache[id1].qa_chain = 1 /\ session_cache[id2].qa_chain = 2
        /\ Len(session_cache[id1].chat_history) = 0
        /\ Len(session_cache[id2].chat_history) = 1
        /\ log[id2][2].chain = 2

\* C18 as stated: a process-video run for an id that is not cached answers
\* 404 exactly when the transcript service call fails; when the call
\* succeeds, whatever text it gives, the run goes on to the index build.
C18_Original ==
    \A id \in LogKeys \ {NoId} : \A k \in 1..Len(log[id]) :
        (IsProcess(log[id][k]) /\ ~log[id][k].cached_before) =>
            /\ log[id][k].status = 404 <=> ~log[id][k].calls[1].ok
            /\ log[id][k].calls[1].ok => HasStep(log[id][k].calls, "index")
====
